---- MODULE Spec2Model ----
(***************************************************************************)
(* A model of colorz.py: the colour pipeline clamp -> kmeans ->            *)
(* order_by_hue -> brighten, with Python's float (IEEE-754 binary64,       *)
(* round-to-nearest-even) arithmetic reproduced bit for bit, because the   *)
(* program truncates float results to integers (up_scale) and the claims   *)
(* are about those truncated integers.                                     *)
(***************************************************************************)
EXTENDS Integers, Sequences, FiniteSets, TLC

(***************************************************************************)
(* Unbounded naturals.  A double has a 53 bit mantissa and an exact        *)
(* product has 106 bits, so mantissas are little-endian sequences of 15    *)
(* bit limbs without leading zero limbs; <<>> is zero.                     *)
(***************************************************************************)
LimbBits == 15
LimbBase == 2^15

\* TLC evaluates the argument of an operator, and a LET definition, again at
\* every use, and the argument of a function once: the arithmetic is
\* functions, so that a term costs as much as the program's expression.
BigNat == Seq(0..(LimbBase - 1))

Pow2(k) == 2^k

BNorm[a \in BigNat] ==
    IF a = <<>> THEN a
    ELSE IF a[Len(a)] = 0 THEN BNorm[SubSeq(a, 1, Len(a) - 1)]
    ELSE a

BFromInt[n \in Nat] ==
    IF n = 0 THEN <<>>
    ELSE IF n < LimbBase THEN <<n>>
    ELSE IF n < LimbBase * LimbBase THEN <<n % LimbBase, n \div LimbBase>>
    ELSE <<n % LimbBase, (n \div LimbBase) % LimbBase, n \div (LimbBase * LimbBase)>>

BToInt[a \in BigNat] ==
    IF a = <<>> THEN 0
    ELSE IF Len(a) = 1 THEN a[1]
    ELSE a[1] + LimbBase * a[2]

\* a + b + c for a carry c
BAddC[a \in BigNat, b \in BigNat, c \in Nat] ==
    IF a = <<>> /\ b = <<>> THEN (IF c = 0 THEN <<>> ELSE <<c>>)
    ELSE LET x == IF a = <<>> THEN 0 ELSE a[1]
             y == IF b = <<>> THEN 0 ELSE b[1]
             t == x + y + c
         IN  <<t % LimbBase>>
             \o BAddC[IF a = <<>> THEN a ELSE Tail(a),
                      IF b = <<>> THEN b ELSE Tail(b), t \div LimbBase]

BAdd[a \in BigNat, b \in BigNat] == BAddC[a, b, 0]

\* a - b - c for a >= b + c, not normalised
BSubC[a \in BigNat, b \in BigNat, c \in Nat] ==
    IF a = <<>> THEN <<>>
    ELSE LET y == IF b = <<>> THEN 0 ELSE b[1]
             t == a[1] - y - c
         IN  <<t % LimbBase>>
             \o BSubC[Tail(a), IF b = <<>> THEN b ELSE Tail(b),
                      IF t < 0 THEN 1 ELSE 0]

BSub[a \in BigNat, b \in BigNat] == BNorm[BSubC[a, b, 0]]

\* -1, 0, 1 as a < b, a = b, a > b; from the most significant limb down
BCmpFrom[a \in BigNat, b \in BigNat, i \in Nat] ==
    IF i = 0 THEN 0
    ELSE IF a[i] < b[i] THEN -1
    ELSE IF a[i] > b[i] THEN 1
    ELSE BCmpFrom[a, b, i - 1]

BCmp[a \in BigNat, b \in BigNat] ==
    IF Len(a) < Len(b) THEN -1
    ELSE IF Len(a) > Len(b) THEN 1
    ELSE BCmpFrom[a, b, Len(a)]

\* a * k + c for 0 <= k, c < LimbBase
BMulSmallC[a \in BigNat, k \in Nat, c \in Nat] ==
    IF a = <<>> THEN (IF c = 0 THEN <<>> ELSE <<c>>)
    ELSE LET t == a[1] * k + c
         IN  <<t % LimbBase>> \o BMulSmallC[Tail(a), k, t \div LimbBase]

BMulSmall[a \in BigNat, k \in Nat] == IF k = 0 THEN <<>> ELSE BMulSmallC[a, k, 0]

BZeros[n \in Nat] == IF n = 0 THEN <<>> ELSE <<0>> \o BZeros[n - 1]

\* a * LimbBase
BUp[a \in BigNat] == IF a = <<>> THEN a ELSE <<0>> \o a

BMul[a \in BigNat, b \in BigNat] ==
    IF a = <<>> \/ b = <<>> THEN <<>>
    ELSE BAdd[BMulSmall[a, b[1]], BUp[BMul[a, Tail(b)]]]

\* a * 2^k
BShl[a \in BigNat, k \in Nat] ==
    IF a = <<>> THEN a
    ELSE BZeros[k \div LimbBits] \o BMulSmall[a, Pow2(k % LimbBits)]

\* floor(a / 2^r) for 0 <= r < LimbBits, limb by limb
BShrSmall[a \in BigNat, r \in Nat] ==
    LET p == Pow2(r)
        q == Pow2(LimbBits - r)
    IN  BNorm[[i \in 1..Len(a) |->
                 (a[i] \div p)
                 + (IF i < Len(a) THEN (a[i + 1] % p) * q ELSE 0)]]

\* floor(a / 2^k)
BShr[a \in BigNat, k \in Nat] ==
    IF k \div LimbBits >= Len(a) THEN <<>>
    ELSE BShrSmall[SubSeq(a, (k \div LimbBits) + 1, Len(a)), k % LimbBits]

\* a mod 2^k
BLow[a \in BigNat, k \in Nat] ==
    IF k \div LimbBits >= Len(a) THEN a
    ELSE BNorm[SubSeq(a, 1, k \div LimbBits)
               \o <<a[(k \div LimbBits) + 1] % Pow2(k % LimbBits)>>]

\* bit i (from 0) of a
BBit[a \in BigNat, i \in Nat] ==
    IF i \div LimbBits >= Len(a) THEN 0
    ELSE (a[(i \div LimbBits) + 1] \div Pow2(i % LimbBits)) % 2

IntBitLen[n \in Nat] == IF n = 0 THEN 0 ELSE 1 + IntBitLen[n \div 2]

BBitLen[a \in BigNat] ==
    IF a = <<>> THEN 0
    ELSE LimbBits * (Len(a) - 1) + IntBitLen[a[Len(a)]]

\* Limb i of a, zero beyond its length
BLimb(a, i) == IF i <= Len(a) THEN a[i] ELSE 0

\* One limb of long division (Knuth's algorithm D).  d has DivLimbs limbs
\* and its top limb is at least LimbBase / 2; r < d and R = r * LimbBase.
\* The next quotient limb is floor(R / d); the estimate qhat from the two
\* top limbs of R and the top limb of d is at most 2 too large.
\* The result is <<quotient limb, remainder>>.
DivLimbs == 4

BDivFix[R \in BigNat, d \in BigNat, qhat \in Nat, t \in BigNat] ==
    IF BCmp[t, R] <= 0 THEN <<qhat, BSub[R, t]>>
    ELSE BDivFix[R, d, qhat - 1, BSub[t, d]]

BDivEst[R \in BigNat, d \in BigNat, est \in Nat] ==
    IF est >= LimbBase THEN BDivFix[R, d, LimbBase - 1, BMulSmall[d, LimbBase - 1]]
    ELSE BDivFix[R, d, est, BMulSmall[d, est]]

BDivLimb[r \in BigNat, d \in BigNat] ==
    IF r = <<>> THEN <<0, r>>
    ELSE BDivEst[<<0>> \o r, d,
                 (BLimb(r, DivLimbs) * LimbBase + BLimb(r, DivLimbs - 1))
                 \div d[DivLimbs]]

\* q is the quotient so far and res the next <<quotient limb, remainder>>
BDivPut[q \in BigNat, res \in Nat \X BigNat] ==
    <<IF q = <<>> /\ res[1] = 0 THEN <<>> ELSE <<res[1]>> \o q, res[2]>>

\* qr is <<quotient so far, remainder>>; one more quotient limb
BDivStep[qr \in BigNat \X BigNat, d \in BigNat] ==
    BDivPut[qr[1], BDivLimb[qr[2], d]]

\* <<floor(n * 2^QuotBits / d), remainder>> for d / 2 < n < 2 * d
QuotBits == DivLimbs * LimbBits

BDivQuot[n \in BigNat, d \in BigNat] ==
    BDivStep[BDivStep[BDivStep[BDivStep[
        IF BCmp[n, d] >= 0 THEN <<<<1>>, BSub[n, d]>> ELSE <<<<>>, n>>,
        d], d], d], d]

(***************************************************************************)
(* binary64.  A finite double is [s, m, e] with value s * m * 2^e, where   *)
(* s is 1 or -1 and 2^52 <= m < 2^53; zero is [1, <<>>, 0].  The values    *)
(* the program computes stay far from the overflow and subnormal ranges.   *)
(***************************************************************************)
MantBits == 53

Sign == {1, -1}
Double == [s : Sign, m : BigNat, e : Int]

FZero == [s |-> 1, m |-> <<>>, e |-> 0]

IsZero(x) == x.m = <<>>

\* A mantissa q of MantBits or MantBits + 1 bits at exponent e
FPack[s \in Sign, q \in BigNat, e \in Int] ==
    IF BBitLen[q] > MantBits THEN [s |-> s, m |-> BShr[q, 1], e |-> e + 1]
    ELSE [s |-> s, m |-> q, e |-> e]

\* M of more than MantBits bits cut to q = floor(M / 2^d): up when the bits
\* cut off are more than half a last place, or half of it and q is odd
FCut[s \in Sign, M \in BigNat, e \in Int, sticky \in BOOLEAN, d \in Nat, q \in BigNat] ==
    IF BBit[M, d - 1] = 1 /\ (sticky \/ BLow[M, d - 1] # <<>> \/ BBit[q, 0] = 1)
    THEN FPack[s, BAdd[q, <<1>>], e + d]
    ELSE FPack[s, q, e + d]

\* M of L bits
FFit[s \in Sign, M \in BigNat, e \in Int, sticky \in BOOLEAN, L \in Nat] ==
    IF L <= MantBits
    THEN [s |-> s, m |-> BShl[M, MantBits - L], e |-> e - (MantBits - L)]
    ELSE FCut[s, M, e, sticky, L - MantBits, BShr[M, L - MantBits]]

\* The double nearest to s * M * 2^e (* a little more when sticky *), ties
\* to the even mantissa.
FRound[s \in Sign, M \in BigNat, e \in Int, sticky \in BOOLEAN] ==
    IF M = <<>> THEN FZero ELSE FFit[s, M, e, sticky, BBitLen[M]]

\* float(n) for an integer |n| < 2^45
FromInt[n \in Int] ==
    IF n < 0 THEN FRound[-1, BFromInt[-n], 0, FALSE]
    ELSE FRound[1, BFromInt[n], 0, FALSE]

FNeg[x \in Double] == IF IsZero(x) THEN x ELSE [x EXCEPT !.s = -x.s]

\* |x| against |y|
FCmpMag[x \in Double, y \in Double] ==
    IF IsZero(x) THEN (IF IsZero(y) THEN 0 ELSE -1)
    ELSE IF IsZero(y) THEN 1
    ELSE IF x.e < y.e THEN -1
    ELSE IF x.e > y.e THEN 1
    ELSE BCmp[x.m, y.m]

\* -1, 0, 1 as x < y, x = y, x > y
FCmp[x \in Double, y \in Double] ==
    IF IsZero(x) /\ IsZero(y) THEN 0
    ELSE IF IsZero(x) THEN -y.s
    ELSE IF IsZero(y) THEN x.s
    ELSE IF x.s # y.s THEN x.s
    ELSE x.s * FCmpMag[x, y]

FLt[x \in Double, y \in Double] == FCmp[x, y] < 0
FLe[x \in Double, y \in Double] == FCmp[x, y] <= 0
FEq[x \in Double, y \in Double] == FCmp[x, y] = 0

\* Python's max and min return the first argument on a tie
FMax[x \in Double, y \in Double] == IF FLt[x, y] THEN y ELSE x
FMin[x \in Double, y \in Double] == IF FLt[y, x] THEN y ELSE x

\* An operand more than GuardBits binary places below the other is under a
\* quarter of its last place and leaves the rounded sum unchanged.
GuardBits == 60

\* s * X * 2^e + t * Y * 2^e
FAddMag[s \in Sign, X \in BigNat, t \in Sign, Y \in BigNat, e \in Int, c \in Int] ==
    IF s = t THEN FRound[s, BAdd[X, Y], e, FALSE]
    ELSE IF c = 0 THEN FZero
    ELSE IF c > 0 THEN FRound[s, BSub[X, Y], e, FALSE]
    ELSE FRound[t, BSub[Y, X], e, FALSE]

FAddAt[s \in Sign, X \in BigNat, t \in Sign, Y \in BigNat, e \in Int] ==
    FAddMag[s, X, t, Y, e, BCmp[X, Y]]

FAdd[x \in Double, y \in Double] ==
    IF IsZero(x) THEN y
    ELSE IF IsZero(y) THEN x
    ELSE IF x.e - y.e >= GuardBits THEN x
    ELSE IF y.e - x.e >= GuardBits THEN y
    ELSE IF x.e < y.e THEN FAddAt[x.s, x.m, y.s, BShl[y.m, y.e - x.e], x.e]
    ELSE FAddAt[x.s, BShl[x.m, x.e - y.e], y.s, y.m, y.e]

FSub[x \in Double, y \in Double] == FAdd[x, FNeg[y]]

FMul[x \in Double, y \in Double] ==
    IF IsZero(x) \/ IsZero(y) THEN FZero
    ELSE FRound[x.s * y.s, BMul[x.m, y.m], x.e + y.e, FALSE]

\* x / y for y # 0.  The mantissas, both shifted to DivLimbs full limbs,
\* give 60 or 61 quotient bits; a remainder makes the quotient sticky.
\* A division by a power of two is exact.
NormShift == DivLimbs * LimbBits - MantBits

MantOne == BShl[<<1>>, MantBits - 1]

FQuot[s \in Sign, qr \in BigNat \X BigNat, e \in Int] ==
    FRound[s, qr[1], e, qr[2] # <<>>]

FDiv[x \in Double, y \in Double] ==
    IF IsZero(x) THEN FZero
    ELSE IF y.m = MantOne
    THEN [s |-> x.s * y.s, m |-> x.m, e |-> x.e - y.e - (MantBits - 1)]
    ELSE FQuot[x.s * y.s, BDivQuot[BShl[x.m, NormShift], BShl[y.m, NormShift]],
               x.e - y.e - QuotBits]

\* int(x): truncation toward zero, for |x| < 2^30
FInt[x \in Double] ==
    IF IsZero(x) \/ x.e <= -MantBits THEN 0
    ELSE IF x.e >= 0 THEN x.s * BToInt[BShl[x.m, x.e]]
    ELSE x.s * BToInt[BShr[x.m, -x.e]]

\* math.fmod(x, 1.0): the fraction of x, with the sign of x, exact
FFrac[x \in Double] ==
    IF IsZero(x) \/ x.e >= 0 THEN FZero
    ELSE IF x.e <= -MantBits THEN x
    ELSE FRound[x.s, BLow[x.m, -x.e], x.e, FALSE]

F1 == FromInt[1]
F2 == FromInt[2]
F4 == FromInt[4]
F6 == FromInt[6]

\* m + 1.0 (rounded) when the remainder m is negative
FWrap[m \in Double] ==
    IF IsZero(m) THEN FZero
    ELSE IF m.s < 0 THEN FAdd[m, F1]
    ELSE m

\* Python's x % 1.0
FMod1[x \in Double] == FWrap[FFrac[x]]

FAbs[x \in Double] == [x EXCEPT !.s = 1]

\* One bit of an integer square root, from the two bits pair of the
\* radicand: sr is <<root, remainder>> of the bits above.
BSqrtTry[root \in BigNat, rem \in BigNat, trial \in BigNat] ==
    IF BCmp[rem, trial] >= 0
    THEN <<BMulSmallC[root, 2, 1], BSub[rem, trial]>>
    ELSE <<BMulSmallC[root, 2, 0], rem>>

BSqrtBit[sr \in BigNat \X BigNat, pair \in Nat] ==
    BSqrtTry[sr[1], BMulSmallC[sr[2], 4, pair], BMulSmallC[sr[1], 4, 1]]

\* the bit pairs i down to 1 of M (pair i is the bits 2i - 1 and 2i - 2)
BSqrtBits[M \in BigNat, i \in Nat, sr \in BigNat \X BigNat] ==
    IF i = 0 THEN sr
    ELSE BSqrtBits[M, i - 1,
                   BSqrtBit[sr, 2 * BBit[M, 2 * i - 1] + BBit[M, 2 * i - 2]]]

\* <<floor(sqrt(M)), remainder>> for M < 2^112: RootBits root bits
RootBits == 56

BSqrt[M \in BigNat] == BSqrtBits[M, RootBits, <<<<>>, <<>>>>]

FRoot[sr \in BigNat \X BigNat, e \in Int] == FRound[1, sr[1], e, sr[2] # <<>>]

\* math.sqrt(x) for x >= 0: the mantissa shifted to 110 or 111 bits at an
\* even exponent has a root of 55 or 56 bits; a remainder makes it sticky
FSqrt[x \in Double] ==
    IF IsZero(x) THEN FZero
    ELSE IF (x.e - 57) % 2 = 0 THEN FRoot[BSqrt[BShl[x.m, 57]], (x.e - 57) \div 2]
    ELSE FRoot[BSqrt[BShl[x.m, 58]], (x.e - 58) \div 2]

(***************************************************************************)
(* colorsys (the standard library functions the program imports), on       *)
(* doubles, operation by operation in Python's order of evaluation.        *)
(***************************************************************************)
rgb_to_hsv(r, g, b) ==
    LET maxc   == FMax[FMax[r, g], b]
        minc   == FMin[FMin[r, g], b]
        rangec == FSub[maxc, minc]
        v      == maxc
    IN  IF FEq[minc, maxc] THEN <<FZero, FZero, v>>
        ELSE LET s  == FDiv[rangec, maxc]
                 rc == FDiv[FSub[maxc, r], rangec]
                 gc == FDiv[FSub[maxc, g], rangec]
                 bc == FDiv[FSub[maxc, b], rangec]
                 h  == IF FEq[r, maxc] THEN FSub[bc, gc]
                       ELSE IF FEq[g, maxc] THEN FSub[FAdd[F2, rc], bc]
                       ELSE FSub[FAdd[F4, gc], rc]
             IN  <<FMod1[FDiv[h, F6]], s, v>>

hsv_to_rgb(h, s, v) ==
    IF IsZero(s) THEN <<v, v, v>>
    ELSE LET h6 == FMul[h, F6]
             i  == FInt[h6]
             f  == FSub[h6, FromInt[i]]
             p  == FMul[v, FSub[F1, s]]
             q  == FMul[v, FSub[F1, FMul[s, f]]]
             t  == FMul[v, FSub[F1, FMul[s, FSub[F1, f]]]]
             i6 == i % 6
         IN  CASE i6 = 0 -> <<v, t, p>>
               [] i6 = 1 -> <<q, v, p>>
               [] i6 = 2 -> <<p, v, t>>
               [] i6 = 3 -> <<p, q, v>>
               [] i6 = 4 -> <<t, p, v>>
               [] i6 = 5 -> <<v, p, q>>

(***************************************************************************)
(* colorz.py.  A colour is a triple; its channels are Python ints (model   *)
(* integers) or floats (doubles).  x / SCALE converts an int operand to    *)
(* float first: Floats is that conversion.                                 *)
(***************************************************************************)
SCALE == FromInt[256]

Floats(color) == <<FromInt[color[1]], FromInt[color[2]], FromInt[color[3]]>>

down_scale(x) == FDiv[x, SCALE]

\* up_scale without the scale: int(x)
up_scale_unscaled(x) == FInt[x]

up_scale(x) == FInt[FMul[x, SCALE]]

\* '%02x' % p: lower-case hex, zero-padded to two characters, the sign of
\* a negative number counting as one of them
HexDigit == <<"0", "1", "2", "3", "4", "5", "6", "7",
              "8", "9", "a", "b", "c", "d", "e", "f">>

RECURSIVE HexStr(_)
HexStr(p) ==
    IF p < 16 THEN <<HexDigit[p + 1]>>
    ELSE Append(HexStr(p \div 16), HexDigit[(p % 16) + 1])

Format02x(p) ==
    IF p < 0 THEN <<"-">> \o HexStr(-p)
    ELSE IF p < 16 THEN <<"0">> \o HexStr(p)
    ELSE HexStr(p)

\* rgb: a triple of ints
hexify(rgb) == <<"#">> \o Format02x(rgb[1]) \o Format02x(rgb[2]) \o Format02x(rgb[3])

\* triples and lists of triples of doubles
Triple == Seq(Double)
Triples == Seq(Triple)

\* tuple(map(up_scale, rgb))
UpScaled[rgb \in Triple] == <<up_scale(rgb[1]), up_scale(rgb[2]), up_scale(rgb[3])>>

\* rgb_to_hsv(*map(down_scale, color)) for a colour of doubles
ToHsv[color \in Triple] ==
    rgb_to_hsv(down_scale(color[1]), down_scale(color[2]), down_scale(color[3]))

\* tuple(map(up_scale, hsv_to_rgb(*hsv)))
FromHsv[hsv \in Triple] == UpScaled[hsv_to_rgb(hsv[1], hsv[2], hsv[3])]

\* clamp from its second line on: hsv is (h, s, v), lo and hi the scaled band
ClampHsv[hsv \in Triple, lo \in Double, hi \in Double] ==
    FromHsv[<<hsv[1], hsv[2], FMin[FMax[lo, hsv[3]], hi]>>]

\* clamp without the upper bound: v = max(min_v, v)
clamp_min_only(color, min_v, max_v) ==
    LET hsv == ToHsv[Floats(color)]
    IN  FromHsv[<<hsv[1], hsv[2], FMax[down_scale(FromInt[min_v]), hsv[3]]>>]

\* clamp with hue and saturation exchanged: hsv_to_rgb(s, h, v)
clamp_swapped(color, min_v, max_v) ==
    LET hsv == ToHsv[Floats(color)]
    IN  FromHsv[<<hsv[2], hsv[1],
                  FMin[FMax[down_scale(FromInt[min_v]), hsv[3]],
                       down_scale(FromInt[max_v])]>>]

\* color: a triple of ints; min_v, max_v: ints
clamp(color, min_v, max_v) ==
    ClampHsv[ToHsv[Floats(color)],
             down_scale(FromInt[min_v]), down_scale(FromInt[max_v])]

\* brighten from its second line on: b is down_scale(brightness)
BrightenHsv[hsv \in Triple, b \in Double] ==
    FromHsv[<<hsv[1], hsv[2], FAdd[hsv[3], b]>>]

\* brighten without the down_scale of the colour: rgb_to_hsv(*color)
brighten_unscaled(color, brightness) ==
    BrightenHsv[rgb_to_hsv(color[1], color[2], color[3]),
                down_scale(FromInt[brightness])]

\* color: a triple of doubles; brightness: an int
brighten(color, brightness) ==
    BrightenHsv[ToHsv[color], down_scale(FromInt[brightness])]

\* list.sort(key=lambda t: t[0]): stable, ascending; an insertion sort that
\* puts each element behind the elements whose key is not greater
HueInsert[sorted \in Triples, hsv \in Triple] ==
    IF sorted = <<>> THEN <<hsv>>
    ELSE IF FLt[hsv[1], sorted[Len(sorted)][1]]
         THEN Append(HueInsert[SubSeq(sorted, 1, Len(sorted) - 1), hsv],
                     sorted[Len(sorted)])
         ELSE Append(sorted, hsv)

SortByHue[hsvs \in Triples] ==
    IF hsvs = <<>> THEN <<>>
    ELSE HueInsert[SortByHue[SubSeq(hsvs, 1, Len(hsvs) - 1)], hsvs[Len(hsvs)]]

\* [rgb_to_hsv(*map(down_scale, color)) for color in colors]
HsvList[colors \in Triples] == [i \in 1..Len(colors) |-> ToHsv[colors[i]]]

\* [tuple(map(up_scale, hsv_to_rgb(*hsv))) for hsv in hsvs]
RgbList[hsvs \in Triples] == [i \in 1..Len(hsvs) |-> FromHsv[hsvs[i]]]

\* order_by_hue without the sort
order_by_hue_unsorted(colors) == RgbList[HsvList[colors]]

\* colors: a sequence of triples of doubles
order_by_hue(colors) == RgbList[SortByHue[HsvList[colors]]]

(***************************************************************************)
(* scipy.cluster.vq.kmeans(obs, k), which colorz calls on the clamped      *)
(* colours as doubles.  kmeans raises ValueError for k < 1, then draws     *)
(* the first code book as k rows of obs sampled without replacement        *)
(* (ValueError when k exceeds the number of rows) and runs _kmeans: assign *)
(* every observation to its nearest code (vq), replace every code by the   *)
(* mean of its observations, drop the codes without observations, until    *)
(* the mean distance changes by at most thresh = 1e-5.  kmeans repeats     *)
(* that iter = 20 times with fresh draws and returns the book of the least *)
(* distortion; the draws are independent, so the books kmeans can return   *)
(* are exactly the books one run can return, and the model takes one run.  *)
(***************************************************************************)
Thresh == FDiv[F1, FromInt[100000]]

\* numpy.inf, which is only ever subtracted and compared
InfExp == 5000
FInf == [s |-> 1, m |-> <<>>, e |-> InfExp]
IsInf(x) == x.e = InfExp

\* the squares of the differences d, summed from 0.0
SumSqr[d \in Triple] ==
    FAdd[FAdd[FAdd[FZero, FMul[d[1], d[1]]], FMul[d[2], d[2]]], FMul[d[3], d[3]]]

\* the squared distance vq accumulates, feature by feature
DistSqr[code \in Triple, ob \in Triple] ==
    SumSqr[<<FSub[code[1], ob[1]], FSub[code[2], ob[2]], FSub[code[3], ob[3]]>>]

\* best, or <<j, d>> when d is strictly less than the distance of best
Nearer[best \in Nat \X Double, j \in Nat, d \in Double] ==
    IF FLt[d, best[2]] THEN <<j, d>> ELSE best

\* <<code, squared distance>> of the nearest code among book[j..]; best is
\* that of book[1..j-1]; a later code wins only when strictly nearer
NearestFrom[ob \in Triple, book \in Triples, j \in Nat, best \in Nat \X Double] ==
    IF j > Len(book) THEN best
    ELSE NearestFrom[ob, book, j + 1, Nearer[best, j, DistSqr[book[j], ob]]]

\* <<code, distance>> from <<code, squared distance>>
Rooted[near \in Nat \X Double] == <<near[1], FSqrt[near[2]]>>

\* vq(obs, code_book): per observation <<code, distance>>
vq[data \in Triples, book \in Triples] ==
    [i \in 1..Len(data) |->
       Rooted[NearestFrom[data[i], book, 2, <<1, DistSqr[book[1], data[i]]>>]]]

Codes == Seq(Nat \X Double)

\* the sum, from 0.0, of feature k of data[i..] over the members of code c
SumFrom[data \in Triples, codes \in Codes, c \in Nat, k \in Nat, i \in Nat, acc \in Double] ==
    IF i > Len(data) THEN acc
    ELSE SumFrom[data, codes, c, k, i + 1,
                 IF codes[i][1] = c THEN FAdd[acc, data[i][k]] ELSE acc]

Members(codes, c) == {i \in 1..Len(codes) : codes[i][1] = c}

\* the mean of the size members of code c, no code when it has no members
MeanOf[data \in Triples, codes \in Codes, c \in Nat, size \in Nat] ==
    IF size = 0 THEN <<>>
    ELSE <<[k \in 1..3 |-> FDiv[SumFrom[data, codes, c, k, 1, FZero], FromInt[size]]]>>

\* update_cluster_means, then code_book[has_members]
MeansFrom[data \in Triples, codes \in Codes, c \in Nat, nc \in Nat] ==
    IF c > nc THEN <<>>
    ELSE MeanOf[data, codes, c, Cardinality(Members(codes, c))]
         \o MeansFrom[data, codes, c + 1, nc]

\* numpy.mean of the distances (fewer than 8: summed in order from 0.0)
DistSum[codes \in Codes, i \in Nat, acc \in Double] ==
    IF i > Len(codes) THEN acc
    ELSE DistSum[codes, i + 1, FAdd[acc, codes[i][2]]]

MeanDist[codes \in Codes] == FDiv[DistSum[codes, 1, FZero], FromInt[Len(codes)]]

\* abs(prev_avg_dists[0] - prev_avg_dists[1])
AbsDiff[a \in Double, b \in Double] ==
    IF IsInf(a) \/ IsInf(b) THEN FInf ELSE FAbs[FSub[a, b]]

\* diff > thresh
GtThresh(d) == IsInf(d) \/ FLt[Thresh, d]

\* deque(maxlen=2).append
Append2(dq, x) == IF Len(dq) < 2 THEN Append(dq, x) ELSE <<dq[2], x>>

\* the sequences of k distinct numbers of 1..N: rng.choice(N, k, replace=False)
Draws(N, k) ==
    {idx \in [1..k -> 1..N] : \A i, j \in 1..k : i # j => idx[i] # idx[j]}

(***************************************************************************)
(* colorz(fd, n, min_v, max_v, bold_add, order_colors), from the colours   *)
(* obs that get_colors returns.                                            *)
(***************************************************************************)
VARIABLES
    obs,            \* get_colors(img): the distinct colours of the image
    n, min_v, max_v, bold_add, order_colors,   \* the parameters
    pc,             \* the statement colorz is at
    clamped,        \* [clamp(color, min_v, max_v) for color in obs]
    code_book,      \* _kmeans: the code book
    prev_avg_dists, \* _kmeans: the last two mean distances
    diff,           \* _kmeans: their difference
    colors,         \* the clusters, ordered by hue or as kmeans returned them
    pairs,          \* the list colorz returns
    args,           \* a call of clamp, brighten or order_by_hue alone: its arguments
    results         \* and what the calls so far returned

params == <<obs, n, min_v, max_v, bold_add, order_colors>>
alone == <<args, results>>
vars == <<obs, n, min_v, max_v, bold_add, order_colors, pc, clamped,
          code_book, prev_avg_dists, diff, colors, pairs, args, results>>

\* The populations: the colours of Palette at the places of a non-empty set
\* of at most MaxObs places, in the order of the palette.
Palette ==
    <<<<255, 0, 0>>, <<0, 0, 255>>, <<128, 0, 0>>, <<68, 32, 130>>,
      <<255, 255, 255>>, <<7, 71, 82>>>>

PaletteSize == 4
MaxObs == 2

RECURSIVE Pick(_, _)
Pick(S, i) ==
    IF i > Len(Palette) THEN <<>>
    ELSE (IF i \in S THEN <<Palette[i]>> ELSE <<>>) \o Pick(S, i + 1)

Populations ==
    {Pick(S, 1) : S \in {T \in SUBSET (1..PaletteSize) :
                           T # {} /\ Cardinality(T) <= MaxObs}}

MaxN == 2
Bands == {<<170, 200>>, <<200, 200>>, <<0, 255>>, <<200, 170>>, <<-1, 300>>}
BoldAdds == {0, 50, -300}

Init ==
    /\ obs \in Populations
    /\ n \in 0..MaxN
    /\ \E band \in Bands : min_v = band[1] /\ max_v = band[2]
    /\ bold_add \in BoldAdds
    /\ order_colors \in BOOLEAN
    /\ pc = "clamp"
    /\ clamped = <<>>
    /\ code_book = <<>>
    /\ prev_avg_dists = <<>>
    /\ diff = FInf
    /\ colors = <<>>
    /\ pairs = <<>>
    /\ args = <<>>
    /\ results = <<>>

\* line 110
Clamp ==
    /\ pc = "clamp"
    /\ clamped' = [i \in 1..Len(obs) |-> clamp(obs[i], min_v, max_v)]
    /\ pc' = "kmeans"
    /\ UNCHANGED <<params, code_book, prev_avg_dists, diff, colors, pairs, alone>>

\* line 111, kmeans up to the first code book
KmeansGuess ==
    /\ pc = "kmeans"
    /\ IF n < 1 \/ n > Len(clamped)
       THEN /\ pc' = "error"
            /\ UNCHANGED <<code_book, prev_avg_dists, diff>>
       ELSE /\ \E idx \in Draws(Len(clamped), n) :
                 code_book' = [j \in 1..n |-> Floats(clamped[idx[j]])]
            /\ prev_avg_dists' = <<FInf>>
            /\ diff' = FInf
            /\ pc' = "_kmeans"
    /\ UNCHANGED <<params, clamped, colors, pairs, alone>>

\* line 111, one pass of the loop of _kmeans
KmeansIterate ==
    /\ pc = "_kmeans"
    /\ GtThresh(diff)
    /\ \E data \in {[i \in 1..Len(clamped) |-> Floats(clamped[i])]} :
         \E codes \in {vq[data, code_book]} :
           /\ code_book' = MeansFrom[data, codes, 1, Len(code_book)]
           /\ prev_avg_dists' = Append2(prev_avg_dists, MeanDist[codes])
           /\ diff' = AbsDiff[prev_avg_dists'[1], prev_avg_dists'[2]]
    /\ UNCHANGED <<params, pc, clamped, colors, pairs, alone>>

\* lines 111 and 112: kmeans returns, and the clusters are ordered or not
OrderColors ==
    /\ pc = "_kmeans"
    /\ ~GtThresh(diff)
    /\ colors' = IF order_colors THEN order_by_hue(code_book) ELSE code_book
    /\ pc' = "brighten"
    /\ UNCHANGED <<params, clamped, code_book, prev_avg_dists, diff, pairs, alone>>

\* the channels of colors[i] as doubles: order_by_hue returns ints
ColorDoubles(i) == IF order_colors THEN Floats(colors[i]) ELSE colors[i]

\* line 113
Return ==
    /\ pc = "brighten"
    /\ pairs' = [i \in 1..Len(colors) |->
                   <<colors[i], brighten(ColorDoubles(i), bold_add)>>]
    /\ pc' = "done"
    /\ UNCHANGED <<params, clamped, code_book, prev_avg_dists, diff, colors, alone>>

Next == Clamp \/ KmeansGuess \/ KmeansIterate \/ OrderColors \/ Return

Spec == Init /\ [][Next]_vars

(***************************************************************************)
(* clamp, brighten and order_by_hue called alone, on arguments drawn from  *)
(* bounded sets.  colorz is not running: its variables stay empty.         *)
(***************************************************************************)
run == <<obs, n, min_v, max_v, bold_add, order_colors, clamped,
         code_book, prev_avg_dists, diff, colors, pairs>>

NoRun ==
    /\ obs = <<>> /\ n = 0 /\ min_v = 0 /\ max_v = 0 /\ bold_add = 0
    /\ order_colors = FALSE /\ clamped = <<>> /\ code_book = <<>>
    /\ prev_avg_dists = <<>> /\ diff = FInf /\ colors = <<>> /\ pairs = <<>>

\* The colours with every channel among the first NumLevels of Levels
Levels == <<0, 1, 3, 255, 130, 68, 32, 200>>
NumLevels == 7

Colours ==
    {<<Levels[i], Levels[j], Levels[k]>> : i, j, k \in 1..NumLevels}

\* The bands min_v <= max_v among the first NumBandLevels of BandLevels
BandLevels == <<0, 200, 170, 255, 3>>
NumBandLevels == 4

ValidBands ==
    {band \in {<<BandLevels[i], BandLevels[j]>> : i, j \in 1..NumBandLevels} :
       band[1] <= band[2]}

\* clamp(color, min_v, max_v), and clamp again of what it returned
MaxCalls == 2

InitClamp ==
    /\ NoRun
    /\ pc = "clamp"
    /\ \E c \in Colours, band \in ValidBands :
         args = [color |-> c, min_v |-> band[1], max_v |-> band[2]]
    /\ results = <<>>

CallClamp ==
    /\ pc = "clamp"
    /\ Len(results) < MaxCalls
    /\ results' = Append(results,
                         clamp(IF results = <<>> THEN args.color
                               ELSE results[Len(results)],
                               args.min_v, args.max_v))
    /\ UNCHANGED <<run, pc, args>>

SpecClamp == InitClamp /\ [][CallClamp]_vars

\* brighten(color, brightness)
Brightnesses == {0, 50, -300}

InitBrighten ==
    /\ NoRun
    /\ pc = "brighten"
    /\ \E c \in Colours, b \in Brightnesses :
         args = [color |-> c, brightness |-> b]
    /\ results = <<>>

CallBrighten ==
    /\ pc = "brighten"
    /\ results = <<>>
    /\ results' = <<brighten(Floats(args.color), args.brightness)>>
    /\ UNCHANGED <<run, pc, args>>

SpecBrighten == InitBrighten /\ [][CallBrighten]_vars

\* order_by_hue(colors), colors a list of at most MaxList colours, the colours
\* at distinct places among the first NumHueColors of HueColors
HueColors ==
    <<<<0, 0, 1>>, <<255, 0, 1>>, <<255, 0, 0>>, <<128, 0, 0>>, <<0, 255, 0>>,
      <<68, 32, 130>>, <<0, 1, 3>>, <<130, 130, 130>>>>
NumHueColors == 7
MaxList == 3

InitOrder ==
    /\ NoRun
    /\ pc = "order_by_hue"
    /\ \E k \in 1..MaxList : \E idx \in Draws(NumHueColors, k) :
         args = [colors |-> [j \in 1..k |-> HueColors[idx[j]]]]
    /\ results = <<>>

CallOrder ==
    /\ pc = "order_by_hue"
    /\ results = <<>>
    /\ results' = <<order_by_hue([j \in 1..Len(args.colors) |->
                                    Floats(args.colors[j])])>>
    /\ UNCHANGED <<run, pc, args>>

SpecOrder == InitOrder /\ [][CallOrder]_vars

(***************************************************************************)
(* The properties.                                                         *)
(***************************************************************************)
Abs(x) == IF x < 0 THEN -x ELSE x

\* the value channel of a colour of ints: its maximum channel
MaxChannel(rgb) ==
    LET m == IF rgb[1] >= rgb[2] THEN rgb[1] ELSE rgb[2]
    IN  IF m >= rgb[3] THEN m ELSE rgb[3]

\* two colours of ints within 1 of each other on every channel
Near(a, b) == \A k \in 1..3 : Abs(a[k] - b[k]) <= 1

ValidBand == 0 <= min_v /\ min_v <= max_v /\ max_v <= 255
ValidParams == n >= 1 /\ ValidBand

\* the channels of the base colour of pair i as doubles
BaseDoubles(i) == IF order_colors THEN Floats(pairs[i][1]) ELSE pairs[i][1]

\* C1: with valid parameters colorz does not fail and returns exactly n
\* pairs.
C1_ExactlyN ==
    ValidParams => pc # "error" /\ (pc = "done" => Len(pairs) = n)

\* C2: every channel of what brighten returns is in 0..255, and hexify of
\* it is '#' and six hex digits.
C2_BoldInRange ==
    results # <<>> =>
        /\ \A k \in 1..3 : results[1][k] \in 0..255
        /\ Len(hexify(results[1])) = 7

\* C3: with an invalid parameter (n < 1, min_v > max_v, min_v or max_v
\* outside 0..255) colorz converts and clusters nothing and returns no pairs.
C3_FailFast ==
    ~ValidParams =>
        clamped = <<>> /\ code_book = <<>> /\ pairs = <<>> /\ pc # "done"

\* C4: for a band 0 <= min_v <= max_v <= 255 the value channel of every base
\* colour colorz returns is in [min_v - 1, max_v + 1].
C4_BaseValueInBand ==
    pc = "done" /\ ValidBand =>
        \A i \in 1..Len(pairs) :
            \E v \in {FMax[FMax[BaseDoubles(i)[1], BaseDoubles(i)[2]],
                           BaseDoubles(i)[3]]} :
                FLe[FromInt[min_v - 1], v] /\ FLe[v, FromInt[max_v + 1]]

\* C5: the value channel of clamp(color, min_v, max_v) is in [min_v, max_v],
\* for every colour of channels in 0..255 and 0 <= min_v <= max_v <= 255.
C5_ClampInBand ==
    \A j \in 1..Len(results) :
        MaxChannel(results[j]) \in args.min_v..args.max_v

\* C5 at work: a colour brighter than max_v comes back with value max_v
C5_ClampedDown ==
    /\ results # <<>>
    /\ MaxChannel(args.color) > args.max_v
    /\ MaxChannel(results[1]) = args.max_v

\* the hues of the colours order_by_hue is called on
InHues == [j \in 1..Len(args.colors) |-> ToHsv[Floats(args.colors[j])][1]]

\* the hues of the colours order_by_hue returned, computed from them
OutHues == [j \in 1..Len(results[1]) |-> ToHsv[Floats(results[1][j])][1]]

\* C6 as stated: for input colours of distinct hues, the hues computed from
\* the colours order_by_hue returns are non-decreasing.
C6_OutHuesSorted ==
    results # <<>> =>
        \E h \in {InHues}, o \in {OutHues} :
            (\A i, j \in 1..Len(h) : i # j => ~FEq[h[i], h[j]])
            => \A i, j \in 1..Len(o) : i < j => FLe[o[i], o[j]]

\* C6, amended: order_by_hue returns the truncated HSV round trips of its
\* input colours (brighten(c, 0) of each), in ascending order of the hues of
\* the input colours, colours of equal hue in their input order.
C6_SortedByInHue ==
    results # <<>> =>
        \E h \in {InHues} :
            \E p \in Draws(Len(h), Len(h)) :
                /\ \A i \in 1..Len(h) :
                       results[1][i] = brighten(Floats(args.colors[p[i]]), 0)
                /\ \A i, j \in 1..Len(h) :
                       i < j => \/ FLt[h[p[i]], h[p[j]]]
                                \/ FEq[h[p[i]], h[p[j]]] /\ p[i] < p[j]

\* C6 at work: order_by_hue was called on colours not in order of hue
C6_Reordered ==
    /\ results # <<>>
    /\ \E h \in {InHues} : \E i, j \in 1..Len(h) : i < j /\ FLt[h[j], h[i]]

\* C7 as stated: with bold_add = 0 and valid parameters, bold equals base
\* channel for channel in every pair.
C7_BoldIsBase ==
    pc = "done" /\ bold_add = 0 /\ ValidParams =>
        \A i \in 1..Len(pairs) : Floats(pairs[i][2]) = BaseDoubles(i)

\* C7, amended: with bold_add = 0 every channel of bold is within 1 of the
\* channel of base.
C7_BoldNearBase ==
    pc = "done" /\ bold_add = 0 =>
        \A i \in 1..Len(pairs) : \A k \in 1..3 :
            FLe[FAbs[FSub[FromInt[pairs[i][2][k]], BaseDoubles(i)[k]]], F1]

\* C7 at work: a pair of the hue-ordered path whose bold is not its base
C7_BoldDiffers ==
    /\ pc = "done" /\ bold_add = 0 /\ ValidParams /\ order_colors
    /\ \E i \in 1..Len(pairs) : pairs[i][2] # pairs[i][1]

\* C8: brighten(color, 0), the round trip down_scale, rgb_to_hsv,
\* hsv_to_rgb, up_scale, is within 1 of color on every channel.
C8_RoundTripNear ==
    results # <<>> /\ args.brightness = 0 => Near(results[1], args.color)

\* C8 at work: a round trip that loses 1
C8_RoundTripLoses ==
    results # <<>> /\ args.brightness = 0 /\ results[1] # args.color

\* C9 as stated: clamp of a clamped colour, same band, is that colour.
C9_Idempotent ==
    Len(results) >= 2 => results[2] = results[1]

\* C9, amended: clamp of a clamped colour, same band, has the value channel
\* of that colour and is within 1 of it on every channel.
C9_ClampAgainNear ==
    \A j \in 2..Len(results) :
        /\ MaxChannel(results[j]) = MaxChannel(results[j - 1])
        /\ Near(results[j], results[j - 1])

\* C9 at work: a second clamp that changed the colour
C9_SecondDiffers ==
    Len(results) >= 2 /\ results[2] # results[1]

\* C10: every channel of every base colour colorz returns is an integer in
\* 0..255, with order_colors true or false.
C10_IntegerBases ==
    pc = "done" =>
        \A i \in 1..Len(pairs) : \A k \in 1..3 :
            IF order_colors THEN pairs[i][1][k] \in 0..255
            ELSE /\ IsZero(FFrac[pairs[i][1][k]])
                 /\ FInt[pairs[i][1][k]] \in 0..255
====
